---- MODULE Spec2Model ----
(***************************************************************************)
(* A model of gosqlorm: the schema derivation (pkg/schema), the SQL        *)
(* generators, the query filter (pkg/query) and the ORM entry points       *)
(* (pkg/orm).                                                              *)
(*                                                                         *)
(* Text is modelled as a sequence of fragments: every WriteString or       *)
(* Sprintf of the source appends fragments, and Str(text) is the string    *)
(* the buffer holds.  A Where clause is a sequence of one-character        *)
(* fragments, because strings.Contains and strings.Replace work on it      *)
(* character by character.                                                 *)
(***************************************************************************)
EXTENDS Integers, Sequences, FiniteSets, TLC

\* ------------------------------------------------------------ bounds
\* The longest struct the generators are run on.
MaxFields == 2
\* The largest number of filter arguments.
MaxArgs == 2
\* The largest number of models passed to one AutoMigrate call.
MaxModels == 2
\* The largest capacity of the connection pool and the largest number of
\* goroutines calling Query methods at once.
MaxConns == 2
MaxCallers == 2

\* ------------------------------------------------------------ text helpers
Nil == "<nil>"

RECURSIVE Str(_)
Str(text) == IF text = <<>> THEN "" ELSE Head(text) \o Str(Tail(text))

RECURSIVE Join(_, _)
Join(parts, sep) ==
    IF parts = <<>> THEN <<>>
    ELSE IF Len(parts) = 1 THEN <<parts[1]>>
    ELSE <<parts[1], sep>> \o Join(Tail(parts), sep)

DecimalDigits == <<"0", "1", "2", "3", "4", "5", "6", "7", "8", "9">>

\* strconv.FormatInt(n, 10), as the sequence of its characters.
RECURSIVE FormatInt(_)
FormatInt(n) ==
    IF n < 10 THEN <<DecimalDigits[n + 1]>>
    ELSE FormatInt(n \div 10) \o <<DecimalDigits[(n % 10) + 1]>>

\* fmt.Sprintf("$%d", n) as one fragment.
Placeholder(n) == Str(<<"$">> \o FormatInt(n))

HasPrefixAt(s, sub, i) ==
    /\ i + Len(sub) - 1 <= Len(s)
    /\ SubSeq(s, i, i + Len(sub) - 1) = sub

\* strings.Contains
Contains(s, sub) == \E i \in 1..Len(s) : HasPrefixAt(s, sub, i)

RECURSIVE ReplaceFrom(_, _, _, _)
ReplaceFrom(s, old, new, i) ==
    IF i > Len(s) THEN <<>>
    ELSE IF HasPrefixAt(s, old, i)
         THEN new \o ReplaceFrom(s, old, new, i + Len(old))
         ELSE <<s[i]>> \o ReplaceFrom(s, old, new, i + 1)

\* strings.Replace(s, old, new, -1): every non-overlapping occurrence, left to right.
Replace(s, old, new) == ReplaceFrom(s, old, new, 1)

\* ------------------------------------------------------------ names
\* strcase.ToSnake on the identifiers the model uses, as characters.
SnakeChars(s) ==
    CASE s = "ID" -> <<"i", "d">>
      [] s = "Code" -> <<"c", "o", "d", "e">>
      [] s = "Name" -> <<"n", "a", "m", "e">>
      [] s = "Age" -> <<"a", "g", "e">>
      [] s = "UserID" -> <<"u", "s", "e", "r", "_", "i", "d">>
      [] s = "Email" -> <<"e", "m", "a", "i", "l">>
      [] s = "Phone" -> <<"p", "h", "o", "n", "e">>
      [] s = "Nick" -> <<"n", "i", "c", "k">>
      [] s = "Details" -> <<"d", "e", "t", "a", "i", "l", "s">>
      [] s = "Seq" -> <<"s", "e", "q">>
      [] s = "Meta" -> <<"m", "e", "t", "a">>
      [] s = "Done" -> <<"d", "o", "n", "e">>
      [] s = "Profile" -> <<"p", "r", "o", "f", "i", "l", "e">>
      [] s = "User" -> <<"u", "s", "e", "r">>
      [] s = "Category" -> <<"c", "a", "t", "e", "g", "o", "r", "y">>
      [] s = "UserProfile" ->
            <<"u", "s", "e", "r", "_", "p", "r", "o", "f", "i", "l", "e">>
      [] s = "Contact" -> <<"c", "o", "n", "t", "a", "c", "t">>
      [] s = "contacts" -> <<"c", "o", "n", "t", "a", "c", "t", "s">>
      [] s = "examples" -> <<"e", "x", "a", "m", "p", "l", "e", "s">>
      [] s = "categories" ->
            <<"c", "a", "t", "e", "g", "o", "r", "i", "e", "s">>
      [] s = "user_profiles" ->
            <<"u", "s", "e", "r", "_", "p", "r", "o", "f", "i", "l", "e", "s">>
      [] s = "s" -> <<"s">>
      [] OTHER -> <<>>

SnakeCase(s) == Str(SnakeChars(s))

\* if s ends with y -> ies; s ends with s -> unchanged; otherwise add s
pleuralize(chars) ==
    IF chars # <<>> /\ chars[Len(chars)] = "y"
    THEN SubSeq(chars, 1, Len(chars) - 1) \o <<"i", "e", "s">>
    ELSE IF chars # <<>> /\ chars[Len(chars)] = "s" THEN chars
    ELSE chars \o <<"s">>

\* ------------------------------------------------------------ Go values
\* A struct type: its name and the result of its TableName method (Nil: none).
T_User == [Name |-> "User", TableNameMethod |-> "examples"]
T_Category == [Name |-> "Category", TableNameMethod |-> Nil]
T_UserProfile == [Name |-> "UserProfile", TableNameMethod |-> Nil]
T_Contact == [Name |-> "Contact", TableNameMethod |-> Nil]
T_int == [Name |-> "int", TableNameMethod |-> Nil]

StructTypes == {T_User, T_Category}

\* A struct field declaration.  Tag is the orm tag split on ";" and each item
\* split on ":"; Elem is the struct type of a struct-typed field.
Decl(name, kind, tag, elem, exported) ==
    [Name |-> name, Kind |-> kind, Tag |-> tag, Elem |-> elem, Exported |-> exported]

D_ID == Decl("ID", "int", << <<"primaryKey">>, <<"autoIncrement">> >>, T_int, TRUE)
D_Code == Decl("Code", "int", << <<"primaryKey">> >>, T_int, TRUE)
D_Name == Decl("Name", "string", << <<"not null">> >>, T_int, TRUE)
D_Age == Decl("Age", "int", << <<"default", "20">>, <<"check", "age > 20">> >>, T_int, TRUE)
D_UserID == Decl("UserID", "int", << <<"not null">>, <<"unique">> >>, T_int, TRUE)
D_Email == Decl("Email", "string", << <<"uniqueIndex", "contact_index">> >>, T_int, TRUE)
D_Phone == Decl("Phone", "string", << <<"uniqueIndex", "contact_index">> >>, T_int, TRUE)
D_Nick == Decl("Nick", "string", << <<"unique">>, <<"uniqueIndex", "nick_index">> >>, T_int, TRUE)
D_Details == Decl("Details", "map", << <<"type", "jsonb">> >>, T_int, TRUE)
D_Done == Decl("Done", "chan", <<>>, T_int, TRUE)
D_Profile ==
    Decl("Profile", "struct",
         << <<"foreignKey", "UserID->ID">>, <<"onDelete", "CASCADE">> >>,
         T_UserProfile, TRUE)
D_ProfileContact ==
    Decl("Profile", "struct", << <<"foreignKey", "UserID->ID">> >>, T_Contact, TRUE)
D_hidden == Decl("hidden", "string", <<>>, T_int, FALSE)
D_Seq == Decl("Seq", "int", << <<"type", "bigint">>, <<"autoIncrement">> >>, T_int, TRUE)
D_Meta == Decl("Meta", "map", << <<"type", "json">> >>, T_int, TRUE)

\* The declarations the DDL generator is run on, and those the DML generators
\* are run on (they read a field's name, value and primaryKey/foreignKey keys).
DDLDecls ==
    {D_ID, D_Name, D_Age, D_UserID, D_Email, D_Phone, D_Nick, D_Details, D_Done,
     D_Profile}
DMLDecls == {D_ID, D_Code, D_Name, D_Age, D_Profile, D_hidden}
\* The declarations with a type tag, and one without.
TypeDecls == {D_Seq, D_Meta, D_Details, D_Name}

\* Sequences of distinct declarations (field names are unique in a struct).
FieldLists(decls) ==
    UNION {{fs \in [1..n -> decls] : \A i, j \in 1..n : i # j => fs[i] # fs[j]}
           : n \in 0..MaxFields}

\* The values a field takes: its zero value (0) or a value that names its position.
FieldValues(d, pos) == IF d.Kind = "int" THEN {0, pos} ELSE {pos}

ValueLists(fs) ==
    {vs \in [1..Len(fs) -> 0..Len(fs)] : \A i \in 1..Len(fs) : vs[i] \in FieldValues(fs[i], i)}

\* A Go value handed to the package as interface{}.
StructValue(ptr, type, fs, vs) ==
    [Kind |-> "struct", Ptr |-> ptr, Type |-> type, Fields |-> fs, Vals |-> vs]
IntValue == [Kind |-> "int", Ptr |-> FALSE, Type |-> T_int, Fields |-> <<>>, Vals |-> <<>>]

NonZeroVals(fs) == [i \in 1..Len(fs) |-> i]

IsPointer(v) == v.Ptr
IsStruct(v) == v.Kind = "struct" /\ ~v.Ptr
Elem(v) == [v EXCEPT !.Ptr = FALSE]
IsStructPointer(v) == IsPointer(v) /\ IsStruct(Elem(v))

\* reflect.TypeOf(v).Name(): a pointer type has no name.
TypeName(v) == IF v.Ptr THEN "" ELSE v.Type.Name

GetTableName(v) ==
    IF v.Type.TableNameMethod # Nil
    THEN v.Type.TableNameMethod
    ELSE Str(pleuralize(SnakeChars(TypeName(v))))

\* OrmType: the SQL type guessed from the kind of the value ("" when unmapped).
OrmType(kind) ==
    CASE kind = "string" -> "varchar(255)"
      [] kind = "int" -> "integer"
      [] kind = "map" -> "json"
      [] OTHER -> ""

\* ------------------------------------------------------------ GetTableSchema
EmptyTags == [k \in {} |-> ""]

\* The loop over the tag items: "key:value" sets the value, any other item
\* sets its first part with the empty value; later items overwrite earlier ones.
RECURSIVE ParseTags(_, _)
ParseTags(items, tags) ==
    IF items = <<>> THEN tags
    ELSE LET tagParts == Head(items)
             key == tagParts[1]
             val == IF Len(tagParts) = 2 THEN tagParts[2] ELSE ""
         IN IF tagParts = <<"">>
            THEN ParseTags(Tail(items), tags)
            ELSE ParseTags(Tail(items),
                           [k \in DOMAIN tags \cup {key} |->
                               IF k = key THEN val ELSE tags[k]])

\* A Field of a TableSchema; Value is the field's value in the struct
\* (ReflectObjValue), buf the field's own buffer.
NewField(d, val, dialect) ==
    [Name |-> d.Name, Kind |-> d.Kind, Elem |-> d.Elem, Value |-> val,
     Tags |-> ParseTags(d.Tag, EmptyTags), buf |-> <<>>, dialect |-> dialect]

RECURSIVE ExportedFields(_, _, _)
ExportedFields(v, i, dialect) ==
    IF i > Len(v.Fields) THEN <<>>
    ELSE (IF v.Fields[i].Exported
          THEN <<NewField(v.Fields[i], v.Vals[i], dialect)>>
          ELSE <<>>) \o ExportedFields(v, i + 1, dialect)

\* The nil *TableSchema.
NoSchema ==
    [isNil |-> TRUE, TableName |-> "", Fields |-> <<>>, PrimaryKey |-> Nil,
     UniqueFields |-> <<>>, CompositeIndexes |-> EmptyTags, buf |-> <<>>,
     bufIsNil |-> TRUE, migrated |-> FALSE]

\* The result of GetTableSchema: [schema, err].  PrimaryKey, UniqueFields and
\* CompositeIndexes point to fields, held here by the field's name (PrimaryKey
\* Nil: none); buf is the text written so far (bufIsNil: no buffer yet).
GetTableSchema(m, dialect) ==
    LET v == IF IsPointer(m) THEN Elem(m) ELSE m
    IN IF ~IsStruct(v)
       THEN [schema |-> NoSchema, err |-> "is not a struct"]
       ELSE [schema |->
                [isNil |-> FALSE,
                 TableName |-> GetTableName(v),
                 Fields |-> ExportedFields(v, 1, dialect),
                 PrimaryKey |-> Nil,
                 UniqueFields |-> <<>>,
                 CompositeIndexes |-> EmptyTags,
                 buf |-> <<>>,
                 bufIsNil |-> TRUE,
                 migrated |-> FALSE],
             err |-> Nil]

IsPrimaryKey(f) == "primaryKey" \in DOMAIN f.Tags
IsForeignKey(f) == "foreignKey" \in DOMAIN f.Tags
IsAutoIncrement(f) == "autoIncrement" \in DOMAIN f.Tags

\* ------------------------------------------------------------ DML generators
\* reflect.ValueOf(v).Elem().FieldByName(name).Interface()
FieldByName(v, name) ==
    v.Vals[CHOOSE i \in 1..Len(v.Fields) : v.Fields[i].Name = name]

\* The first loop of TableSchema.InsertSchema, from field idx on (the Go loop
\* index i is idx - 1).
RECURSIVE InsertColumns(_, _, _, _, _, _)
InsertColumns(table, v, idx, buf, values, pkSkipped) ==
    IF idx > Len(table.Fields)
    THEN [buf |-> buf, values |-> values, pkSkipped |-> pkSkipped]
    ELSE LET field == table.Fields[idx]
             i == idx - 1
             sep == IF i > 0 /\ ~(pkSkipped /\ i = 1) THEN <<", ">> ELSE <<>>
             refObjVal == FieldByName(v, field.Name)
         IN IF IsForeignKey(field)
            THEN InsertColumns(table, v, idx + 1, buf, values, pkSkipped)
            ELSE IF IsPrimaryKey(field) /\ refObjVal = 0
            THEN InsertColumns(table, v, idx + 1, buf \o sep, values, TRUE)
            ELSE InsertColumns(table, v, idx + 1,
                               buf \o sep \o <<SnakeCase(field.Name)>>,
                               Append(values, refObjVal), pkSkipped)

\* The second loop of TableSchema.InsertSchema; i counts the placeholders written.
RECURSIVE InsertPlaceholders(_, _, _, _)
InsertPlaceholders(table, idx, i, pkSkipped) ==
    IF idx > Len(table.Fields) THEN <<>>
    ELSE LET field == table.Fields[idx]
         IN IF (IsPrimaryKey(field) /\ pkSkipped) \/ IsForeignKey(field)
            THEN InsertPlaceholders(table, idx + 1, i, pkSkipped)
            ELSE (IF i > 0 THEN <<", ">> ELSE <<>>)
                 \o <<Placeholder(i + 1)>>
                 \o InsertPlaceholders(table, idx + 1, i + 1, pkSkipped)

\* reflect.ValueOf(v).Elem() panics on a value that is no pointer; the first loop
\* of InsertSchema reaches it at the first field that is no foreign key.
InsertPanics(table, v) ==
    ~IsPointer(v) /\ \E i \in 1..Len(table.Fields) : ~IsForeignKey(table.Fields[i])

\* TableSchema.InsertSchema: [query, values, panic]
TableInsertSchema(table, v, dialect) ==
    LET cols == InsertColumns(table, v, 1, <<"INSERT INTO ", table.TableName, " (">>,
                              <<>>, FALSE)
    IN IF InsertPanics(table, v)
       THEN [query |-> <<>>, values |-> <<>>, panic |-> TRUE]
       ELSE [query |-> cols.buf \o <<") VALUES (">>
                       \o InsertPlaceholders(table, 1, 0, cols.pkSkipped)
                       \o <<")">>
                       \o (IF dialect = "postgres" THEN <<" RETURNING *">> ELSE <<>>),
             values |-> cols.values,
             panic |-> FALSE]

\* The loop of TableSchema.UpdateSchema, from field idx on (loopIndex is idx - 1);
\* i counts the assignments written.
RECURSIVE UpdateAssignments(_, _, _, _, _, _)
UpdateAssignments(table, v, idx, i, buf, values) ==
    IF idx > Len(table.Fields) THEN [buf |-> buf, values |-> values]
    ELSE LET field == table.Fields[idx]
             loopIndex == idx - 1
             sep == IF i > 0 /\ loopIndex < Len(table.Fields) - 1
                    THEN <<", ">> ELSE <<>>
         IN IF IsPrimaryKey(field) \/ IsForeignKey(field)
            THEN UpdateAssignments(table, v, idx + 1, i, buf, values)
            ELSE UpdateAssignments(table, v, idx + 1, i + 1,
                    buf \o sep \o <<SnakeCase(field.Name), " = ", Placeholder(i + 1)>>,
                    Append(values, FieldByName(v, field.Name)))

\* The loop of UpdateSchema reaches Elem() at the first field that is no key.
UpdatePanics(table, v) ==
    /\ ~IsPointer(v)
    /\ \E i \in 1..Len(table.Fields) :
          ~(IsPrimaryKey(table.Fields[i]) \/ IsForeignKey(table.Fields[i]))

\* TableSchema.UpdateSchema: [query, values, panic]
TableUpdateSchema(table, v, dialect) ==
    LET set == UpdateAssignments(table, v, 1, 0,
                                 <<"UPDATE ", table.TableName, " SET ">>, <<>>)
    IN IF UpdatePanics(table, v)
       THEN [query |-> <<>>, values |-> <<>>, panic |-> TRUE]
       ELSE [query |-> set.buf, values |-> set.values, panic |-> FALSE]

\* TableSchema.DeleteSchema
TableDeleteSchema(table, dialect) == <<"DELETE FROM ", table.TableName, " ">>

\* ------------------------------------------------------------ query filter
ErrEmptyQueryFilter == "query filter cannot be nil"
ErrEmptyQueryFilterWhere == "query filter where clause cannot be empty"
ErrEmptyQueryFilterArgs == "query filter args cannot be empty"

\* A *QueryFilter: Query is the raw statement (Nil: none), Where the clause as
\* characters, Args the arguments.
QueryFilter(where, args) ==
    [isNil |-> FALSE, Query |-> Nil, Where |-> where, Args |-> args, err |-> Nil]
NilFilter ==
    [isNil |-> TRUE, Query |-> Nil, Where |-> <<>>, Args |-> <<>>, err |-> Nil]

\* Validate with the argument check made before the Where check.
Validate_ArgsFirst(qf) ==
    IF qf.isNil THEN ErrEmptyQueryFilter
    ELSE IF qf.err # Nil THEN qf.err
    ELSE IF Len(qf.Args) = 0 THEN ErrEmptyQueryFilterArgs
    ELSE IF qf.Where = <<>> THEN ErrEmptyQueryFilterWhere
    ELSE Nil

\* QueryFilter.Validate (the err field is set nowhere in the package: nil)
Validate(qf) ==
    IF qf.isNil THEN ErrEmptyQueryFilter
    ELSE IF qf.err # Nil THEN qf.err
    ELSE IF qf.Where = <<>> THEN ErrEmptyQueryFilterWhere
    ELSE IF Len(qf.Args) = 0 THEN ErrEmptyQueryFilterArgs
    ELSE Nil

\* The renumbering loop with the append moved inside the if: an argument whose
\* placeholder the clause does not hold is dropped.
RECURSIVE RenumberWhere_AppendIfFound(_, _, _, _, _)
RenumberWhere_AppendIfFound(args, idx, whereClase, lastParam, values) ==
    IF idx > Len(args)
    THEN [whereClase |-> whereClase, values |-> values]
    ELSE LET i == idx - 1
             old == <<"$">> \o FormatInt(i + 1)
             new == <<"$">> \o FormatInt(lastParam + 1)
         IN IF Contains(whereClase, old)
            THEN RenumberWhere_AppendIfFound(args, idx + 1, Replace(whereClase, old, new),
                                             lastParam + 1, Append(values, args[idx]))
            ELSE RenumberWhere_AppendIfFound(args, idx + 1, whereClase, lastParam, values)

\* The renumbering loop of schema.UpdateSchema over filter.Args, from argument
\* idx on (the Go loop index i is idx - 1).
RECURSIVE RenumberWhere(_, _, _, _, _)
RenumberWhere(args, idx, whereClase, lastParam, values) ==
    IF idx > Len(args)
    THEN [whereClase |-> whereClase, values |-> values]
    ELSE LET i == idx - 1
             old == <<"$">> \o FormatInt(i + 1)
             new == <<"$">> \o FormatInt(lastParam + 1)
         IN IF Contains(whereClase, old)
            THEN RenumberWhere(args, idx + 1, Replace(whereClase, old, new),
                               lastParam + 1, Append(values, args[idx]))
            ELSE RenumberWhere(args, idx + 1, whereClase, lastParam,
                               Append(values, args[idx]))

Result(query, values, err, panic) ==
    [query |-> query, values |-> values, err |-> err, panic |-> panic]

\* schema.InsertSchema
InsertSchema(v, dialect) ==
    LET got == GetTableSchema(v, dialect)
        ins == TableInsertSchema(got.schema, v, dialect)
    IN IF got.err # Nil THEN Result(<<>>, <<>>, got.err, FALSE)
       ELSE Result(ins.query, ins.values, Nil, ins.panic)

\* schema.UpdateSchema
UpdateSchema(v, filter, dialect) ==
    LET got == GetTableSchema(v, dialect)
        upd == TableUpdateSchema(got.schema, v, dialect)
        ren == RenumberWhere(filter.Args, 1, filter.Where, Len(upd.values), upd.values)
    IN IF got.err # Nil THEN Result(<<>>, <<>>, got.err, FALSE)
       ELSE IF Validate(filter) # Nil THEN Result(<<>>, <<>>, Validate(filter), FALSE)
       ELSE IF upd.panic THEN Result(<<>>, <<>>, Nil, TRUE)
       ELSE Result(upd.query \o <<" WHERE ">> \o ren.whereClase
                       \o (IF dialect = "postgres" THEN <<" RETURNING *">> ELSE <<>>),
                   ren.values, Nil, FALSE)

\* schema.DeleteSchema
DeleteSchema(v, dialect) ==
    LET got == GetTableSchema(v, dialect)
    IN IF got.err # Nil THEN Result(<<>>, <<>>, got.err, FALSE)
       ELSE Result(TableDeleteSchema(got.schema, dialect), <<>>, Nil, FALSE)

\* ------------------------------------------------------------ Query
\* Query.AddQueryFilters
AddQueryFilters(q) ==
    IF q.Filter.isNil THEN q
    ELSE LET q1 == IF q.Filter.Query # Nil
                   THEN [q EXCEPT !.Query = <<q.Filter.Query>>] ELSE q
         IN IF q1.Filter.Where # <<>> /\ Len(q1.Filter.Args) > 0
            THEN [q1 EXCEPT !.Query = @ \o <<" WHERE ">> \o q1.Filter.Where,
                            !.Args = @ \o q1.Filter.Args]
            ELSE q1

ErrQueryEmpty == "query is empty"

\* Query.Validate: the ORM always sets Pool and Result.
QueryValidate(q) == IF Str(q.Query) = "" THEN ErrQueryEmpty ELSE Nil

NewQuery(query, args, filter) == [Query |-> query, Args |-> args, Filter |-> filter]

\* What the pool does with a call: it hands out a connection or not, and the
\* statement succeeds or not.
PoolOutcomes == {"ok", "acquire failed", "statement failed"}

Statement(q) == [sql |-> Str(q.Query), args |-> q.Args]

\* The outcome of a Query method: the error returned and the statements handed
\* to the pool.
Outcome(err, executed) == [err |-> err, executed |-> executed]

StatementErr(pool) == IF pool = "statement failed" THEN "statement failed" ELSE Nil

\* Query.ScanOne
ScanOne(q, pool) ==
    IF QueryValidate(q) # Nil THEN Outcome(QueryValidate(q), <<>>)
    ELSE IF pool = "acquire failed" THEN Outcome("acquire failed", <<>>)
    ELSE Outcome(StatementErr(pool), <<Statement(AddQueryFilters(q))>>)

\* Query.Exec
Exec(q, pool) ==
    IF QueryValidate(q) # Nil THEN Outcome(QueryValidate(q), <<>>)
    ELSE Outcome(StatementErr(pool), <<Statement(AddQueryFilters(q))>>)

\* Query.Create
Create(q, pool) ==
    IF QueryValidate(q) # Nil THEN Outcome(QueryValidate(q), <<>>)
    ELSE IF pool = "acquire failed" THEN Outcome("acquire failed", <<>>)
    ELSE Outcome(StatementErr(pool), <<Statement(q)>>)

\* ------------------------------------------------------------ Columns
RECURSIVE QualifiedColumns(_, _)
QualifiedColumns(table, idx) ==
    IF idx > Len(table.Fields) THEN <<>>
    ELSE <<IF IsForeignKey(table.Fields[idx]) THEN ""
           ELSE Str(<<table.TableName, ".", SnakeCase(table.Fields[idx].Name)>>)>>
         \o QualifiedColumns(table, idx + 1)

\* schema.Columns: the qualified column names and the error
Columns(v, dialect) ==
    LET got == GetTableSchema(v, dialect)
    IN IF got.err # Nil THEN [qualified |-> <<>>, err |-> got.err]
       ELSE [qualified |-> QualifiedColumns(got.schema, 1), err |-> Nil]

\* strings.Trim(s, ", ") on a joined column list: the leading and trailing
\* fragments made of ',' and ' ' only (separators and empty names) go.
RECURSIVE TrimLeft(_)
TrimLeft(parts) ==
    IF parts # <<>> /\ Head(parts) \in {"", ", "} THEN TrimLeft(Tail(parts)) ELSE parts

RECURSIVE TrimRight(_)
TrimRight(parts) ==
    IF parts # <<>> /\ parts[Len(parts)] \in {"", ", "}
    THEN TrimRight(SubSeq(parts, 1, Len(parts) - 1)) ELSE parts

Trim(parts) == TrimRight(TrimLeft(parts))

\* ------------------------------------------------------------ ORM
POSTGRES == "postgres"
ErrModel == "model v must be a pointer to a struct"

\* schema.GetType: a pointer to a new zero value of v's struct type
GetType(v) == [v EXCEPT !.Vals = [i \in 1..Len(v.Fields) |-> 0]]

\* orm.Find
OrmFind(v, filter, pool) ==
    LET model == GetType(v)
        selector == Trim(Join(Columns(model, POSTGRES).qualified, ", "))
        q == NewQuery(<<"SELECT ">> \o selector \o <<" FROM ", GetTableName(model), " ">>,
                      <<>>, filter)
    IN IF ~IsStructPointer(v) THEN Outcome(ErrModel, <<>>)
       ELSE IF Validate(filter) # Nil THEN Outcome(Validate(filter), <<>>)
       ELSE ScanOne(q, pool)

\* orm.Update
OrmUpdate(v, conditions, pool) ==
    LET upd == UpdateSchema(v, conditions, POSTGRES)
    IN IF ~IsStructPointer(v) THEN Outcome(ErrModel, <<>>)
       ELSE IF Validate(conditions) # Nil THEN Outcome(Validate(conditions), <<>>)
       ELSE IF upd.err # Nil THEN Outcome(upd.err, <<>>)
       ELSE Create(NewQuery(upd.query, upd.values, conditions), pool)

\* orm.Delete
OrmDelete(v, conditions, pool) ==
    LET del == DeleteSchema(v, POSTGRES)
    IN IF ~IsStructPointer(v) THEN Outcome(ErrModel, <<>>)
       ELSE IF Validate(conditions) # Nil THEN Outcome(Validate(conditions), <<>>)
       ELSE IF del.err # Nil THEN Outcome(del.err, <<>>)
       ELSE Exec(NewQuery(del.query, <<>>, conditions), pool)

\* ------------------------------------------------------------ DDL generator
\* The rendering works on the table and the process-wide ForeignKeys registry
\* (table name -> list of ForeignKey): env == [t, fks, panic].
Env(t, fks) == [t |-> t, fks |-> fks, panic |-> FALSE]

\* f.buf.WriteString on field idx of the table
FieldWrite(env, idx, text) == [env EXCEPT !.t.Fields[idx].buf = @ \o text]

\* strings.Split(v, "->") on the foreignKey values the model uses
SplitArrow(v) == IF v = "UserID->ID" THEN <<"UserID", "ID">> ELSE <<v>>

\* Field.FKExists
FKExists_FirstOnly(fks, constraint_name) ==
    \E tbl \in DOMAIN fks :
        Len(fks[tbl]) > 0 /\ fks[tbl][1].ConstraintName = constraint_name

FKExists(fks, constraint_name) ==
    \E tbl \in DOMAIN fks : \E i \in 1..Len(fks[tbl]) :
        fks[tbl][i].ConstraintName = constraint_name

TagOr(tags, k) == IF k \in DOMAIN tags THEN tags[k] ELSE ""

\* The foreignKey branch of Field.WriteFieldConstraints
RegisterForeignKey(env, idx, v) ==
    LET f == env.t.Fields[idx]
        fks == SplitArrow(v)
        constraint_name ==
            Str(<<SnakeCase(env.t.TableName), "_", SnakeCase(f.Name), "_fkey">>)
        TableName == GetTableName(StructValue(FALSE, f.Elem, <<>>, <<>>))
        fk == [ConstraintName |-> constraint_name,
               OnDelete |-> IF "onDelete" \in DOMAIN f.Tags
                            THEN Str(<<" ON DELETE ", f.Tags["onDelete"]>>) ELSE "",
               OnUpdate |-> IF "onUpdate" \in DOMAIN f.Tags
                            THEN Str(<<" ON UPDATE ", f.Tags["onUpdate"]>>) ELSE "",
               FK |-> fks[1],
               ParentPkColumn |-> fks[2],
               TableName |-> TableName,
               ParentTable |-> SnakeCase(env.t.TableName)]
    IN IF Len(fks) # 2 THEN [env EXCEPT !.panic = TRUE]
       ELSE IF FKExists(env.fks, constraint_name) THEN env
       ELSE [env EXCEPT !.fks =
                [tbl \in DOMAIN env.fks \cup {TableName} |->
                    IF tbl = TableName
                    THEN (IF tbl \in DOMAIN env.fks THEN env.fks[tbl] ELSE <<>>) \o <<fk>>
                    ELSE env.fks[tbl]]]

\* Field.WriteFieldConstraints
WriteFieldConstraints(env, idx, k, v) ==
    LET f == env.t.Fields[idx]
        groups == env.t.CompositeIndexes
    IN CASE k = "unique" ->
              [env EXCEPT !.t.UniqueFields = Append(@, f.Name)]
         [] k = "autoIncrement" ->
              FieldWrite(env, idx,
                  <<" ">> \o (CASE f.dialect = "postgres" -> <<>>
                                [] f.dialect = "mysql" -> <<"AUTO_INCREMENT">>
                                [] f.dialect = "sqlite" -> <<"AUTOINCREMENT">>
                                [] OTHER -> <<>>))
         [] k = "uniqueIndex" ->
              [env EXCEPT !.t.CompositeIndexes =
                  [g \in DOMAIN groups \cup {v} |->
                      IF g = v
                      THEN Append(IF g \in DOMAIN groups THEN groups[g] ELSE <<>>, f.Name)
                      ELSE groups[g]]]
         [] k = "foreignKey" -> RegisterForeignKey(env, idx, v)
         [] k = "check" -> FieldWrite(env, idx, <<" CHECK (", v, ")">>)
         [] OTHER -> env

\* Field.IsConstraint
IsConstraint(tagName) ==
    tagName \in {"unique", "check", "uniqueIndex", "autoIncrement", "foreignKey",
                 "onDelete", "onUpdate"}

\* strings.ToUpper on the SQL types the model uses
ToUpper(sqlType) ==
    CASE sqlType = "integer" -> "INTEGER"
      [] sqlType = "varchar(255)" -> "VARCHAR(255)"
      [] sqlType = "json" -> "JSON"
      [] sqlType = "jsonb" -> "JSONB"
      [] sqlType = "bigint" -> "BIGINT"
      [] OTHER -> sqlType

\* Field.PrintType
PrintType(env, idx, sqlType) ==
    LET f == env.t.Fields[idx]
        upper == ToUpper(sqlType)
    IN FieldWrite(env, idx,
          <<"  ", SnakeCase(f.Name), " ">>
          \o (IF IsAutoIncrement(f)
              THEN (IF f.dialect = "postgres" THEN <<"SERIAL">> ELSE <<upper>>)
              ELSE IF f.dialect = "postgres" /\ sqlType = "json" THEN <<"JSONB">>
              ELSE <<upper>>))

\* Field.PrintTags: the range over the Tags map visits the keys in any order;
\* order is the order of this run.
RECURSIVE PrintTags(_, _, _)
PrintTags(env, idx, order) ==
    IF order = <<>> THEN env
    ELSE LET k == Head(order)
             v == env.t.Fields[idx].Tags[k]
             next ==
                 IF k = "type" \/ k = "primaryKey" THEN env
                 ELSE IF IsConstraint(k) THEN WriteFieldConstraints(env, idx, k, v)
                 ELSE IF v = "" THEN FieldWrite(env, idx, <<" ", k>>)
                 ELSE FieldWrite(env, idx, <<" ", k, " ", v>>)
         IN \* a return inside WriteFieldConstraints ends that call only
            PrintTags(next, idx, Tail(order))

\* Field.String: the env after the call; the string returned is the field's buf.
FieldString(env, idx, order) ==
    LET f == env.t.Fields[idx]
        typed == IF TagOr(f.Tags, "type") # ""
                 THEN PrintType(env, idx, f.Tags["type"])
                 ELSE IF OrmType(f.Kind) # ""
                 THEN PrintType(env, idx, OrmType(f.Kind))
                 ELSE env
        keyed == IF IsPrimaryKey(f) THEN [typed EXCEPT !.t.PrimaryKey = f.Name]
                 ELSE typed
    IN PrintTags(keyed, idx, order)

\* TableSchema.WriteHeader
WriteHeader(t) ==
    [t EXCEPT !.buf = @ \o <<"CREATE TABLE IF NOT EXISTS ", t.TableName, " (\n">>]

\* TableSchema.WriteColumns from field idx on (the Go loop index i is idx - 1);
\* orders[idx] is the order in which field idx's tags are visited.
RECURSIVE WriteColumns(_, _, _)
WriteColumns(env, idx, orders) ==
    IF idx > Len(env.t.Fields) THEN env
    ELSE LET i == idx - 1
             field == env.t.Fields[idx]
             sep == IF i > 0 /\ i <= Len(env.t.Fields) - 1 /\ ~IsForeignKey(field)
                    THEN <<",\n">> ELSE <<>>
             env1 == [env EXCEPT !.t.buf = @ \o sep]
             env2 == FieldString(env1, idx, orders[idx])
         IN WriteColumns([env2 EXCEPT !.t.buf = @ \o env2.t.Fields[idx].buf],
                         idx + 1, orders)

\* TableSchema.WritePrimaryKey
WritePrimaryKey(t) ==
    IF t.PrimaryKey # Nil
    THEN [t EXCEPT !.buf = @ \o <<",\nPRIMARY KEY (", SnakeCase(t.PrimaryKey), ")">>]
    ELSE t

\* WriteUniqueFields stopping after one clause
WriteUniqueFields_OnlyOne(t, idx) ==
    IF idx > Len(t.UniqueFields) THEN t
    ELSE [t EXCEPT !.buf = @ \o <<",\nUNIQUE (", SnakeCase(t.UniqueFields[idx]), ")">>]

\* TableSchema.WriteUniqueFields from entry idx on
RECURSIVE WriteUniqueFields(_, _)
WriteUniqueFields(t, idx) ==
    IF idx > Len(t.UniqueFields) THEN t
    ELSE WriteUniqueFields(
            [t EXCEPT !.buf = @ \o <<",\nUNIQUE (", SnakeCase(t.UniqueFields[idx]), ")">>],
            idx + 1)

RECURSIVE SnakeNames(_)
SnakeNames(names) ==
    IF names = <<>> THEN <<>> ELSE <<SnakeCase(Head(names))>> \o SnakeNames(Tail(names))

\* TableSchema.WriteCompositeUnique: the range over the CompositeIndexes map
\* visits the groups in any order; groupOrder is the order of this run.
RECURSIVE WriteCompositeUnique(_, _)
WriteCompositeUnique(t, groupOrder) ==
    IF groupOrder = <<>> THEN t
    ELSE LET uniqueIndexes == SnakeNames(t.CompositeIndexes[Head(groupOrder)])
         IN WriteCompositeUnique(
                [t EXCEPT !.buf = @ \o <<",\nUNIQUE(", Str(Join(uniqueIndexes, ", ")), ")">>],
                Tail(groupOrder))

\* The orders a range over a map with these keys can take.
Perms(keys) ==
    {p \in [1..Cardinality(keys) -> keys] :
        \A i, j \in 1..Cardinality(keys) : i # j => p[i] # p[j]}

\* The keys CompositeIndexes has once every field's tags are written: the
\* uniqueIndex names of the fields.
GroupKeys(t) ==
    {t.Fields[i].Tags["uniqueIndex"] :
        i \in {j \in 1..Len(t.Fields) : "uniqueIndex" \in DOMAIN t.Fields[j].Tags}}

\* order visits every key of the map once.
IsOrderOf(order, map) ==
    /\ {order[i] : i \in 1..Len(order)} = DOMAIN map
    /\ Len(order) = Cardinality(DOMAIN map)

TagOrders(t) ==
    LET all == UNION {Perms(DOMAIN t.Fields[i].Tags) : i \in 1..Len(t.Fields)}
    IN {o \in [1..Len(t.Fields) -> all] :
          \A i \in 1..Len(t.Fields) : o[i] \in Perms(DOMAIN t.Fields[i].Tags)}

\* The columns part of TableSchema.String: buffer, header, columns, primary key,
\* single-column unique clauses.
RenderColumns(t, fks, orders) ==
    LET env == WriteColumns(Env(WriteHeader([t EXCEPT !.buf = <<>>, !.bufIsNil = FALSE]),
                                fks), 1, orders)
    IN [env EXCEPT !.t = WriteUniqueFields(WritePrimaryKey(env.t), 1)]

\* TableSchema.String: [t, fks, panic, text], text the string returned.  The
\* dialect argument reaches WriteColumns, which does not read it.
String(t, fks, dialect, orders, groupOrder) ==
    IF t.migrated
    THEN [t |-> t, fks |-> fks, panic |-> FALSE, text |-> Str(t.buf)]
    ELSE LET env == RenderColumns(t, fks, orders)
             done == [WriteCompositeUnique(env.t, groupOrder)
                         EXCEPT !.buf = @ \o <<"\n);">>, !.migrated = TRUE]
         IN [t |-> done, fks |-> env.fks, panic |-> env.panic, text |-> Str(done.buf)]

\* TableSchema.Flush: Reset on the buffer; a nil buffer panics.
Flush(t) == [t EXCEPT !.buf = <<>>]

\* ------------------------------------------------------------ inputs
Dialects == {"postgres", "mysql", "sqlite"}
\* The DML generators tell postgres from every other dialect.
DMLDialects == {"postgres", "mysql"}

\* The values the generators and the ORM are called with: pointers to structs
\* with every combination of zero and set fields, structs passed by value, and
\* IntValue, which is no struct.
PointerValues(decls) ==
    UNION {{StructValue(TRUE, type, fs, vs) : vs \in ValueLists(fs)} :
              type \in StructTypes, fs \in FieldLists(decls)}

StructValues(decls) ==
    {StructValue(FALSE, type, fs, NonZeroVals(fs)) :
        type \in StructTypes, fs \in FieldLists(decls)}

\* A Where clause with one comparison per placeholder number of ps: "c=$1 c=$2".
RECURSIVE WhereText(_)
WhereText(ps) ==
    IF ps = <<>> THEN <<>>
    ELSE <<"c", "=", "$">> \o FormatInt(Head(ps))
         \o (IF Len(ps) > 1 THEN <<" ">> ELSE <<>>) \o WhereText(Tail(ps))

\* The i-th filter argument of the model's filters.
ArgValue(i) == 6 + i
ArgList(n) == [i \in 1..n |-> ArgValue(i)]

\* The placeholder numbers of the model's Where clauses for n arguments: any of
\* $1..$n, each once, in any order; $1 twice; none (the empty clause).  With no
\* argument the clause is empty or names $1.
PlaceholderLists(n) ==
    IF n = 0 THEN {<<>>, <<1>>}
    ELSE {<<1, 1>>} \cup
         UNION {{ps \in [1..len -> 1..n] : \A i, j \in 1..len : i # j => ps[i] # ps[j]}
                : len \in 0..n}

Filters ==
    {NilFilter} \cup
    UNION {{QueryFilter(WhereText(ps), ArgList(n)) : ps \in PlaceholderLists(n)}
           : n \in 0..MaxArgs}

\* ------------------------------------------------------------ state
VARIABLES
    input,        \* the arguments of the calls: [v, filter, dialect, pool]
    call,         \* the last call made
    ret,          \* what it returned: [query, values, err, panic]
    executed,     \* the statements it handed to the pool
    ts,           \* the *TableSchema last made by GetTableSchema (NoSchema: none)
    ForeignKeys,  \* the package's ForeignKeys map
    firstRender,  \* the first String call on ts: [done, Fields, buf, text], the
                  \* Fields it rendered, the buffer it left, the string returned
    mig,          \* the AutoMigrate call in progress: its position and locals
    Pool          \* the connection pool: [free, callers], the connections not
                  \* handed out and each calling goroutine's [op, pc]

vars == <<input, call, ret, executed, ts, ForeignKeys, firstRender, mig, Pool>>

Input(v, filter, dialect, pool) ==
    [v |-> v, filter |-> filter, dialect |-> dialect, pool |-> pool]

NoRender == [done |-> FALSE, Fields |-> <<>>, buf |-> <<>>, text |-> ""]

\* No AutoMigrate call in progress.  During a call: pc its position, i the
\* next model of the first loop, schemasObjects the map of that loop, todo the
\* tables the second loop has not visited, table and fk the position of the
\* loop over ForeignKeys[table].
Idle ==
    [pc |-> "idle", i |-> 0, schemasObjects |-> EmptyTags, todo |-> {}, table |-> "",
     fk |-> 0]

\* No pool in use.
NoPool == [free |-> 0, callers |-> <<>>]

\* The state after the package is loaded, for the given arguments.
Start(in) ==
    /\ input = in
    /\ call = "none"
    /\ ret = Result(<<>>, <<>>, Nil, FALSE)
    /\ executed = <<>>
    /\ ts = NoSchema
    /\ ForeignKeys = EmptyTags
    /\ firstRender = NoRender
    /\ mig = Idle
    /\ Pool = NoPool

DMLValues == PointerValues(DMLDecls) \cup StructValues(DMLDecls) \cup {IntValue}

InitInsert ==
    \E v \in DMLValues, dialect \in DMLDialects : Start(Input(v, NilFilter, dialect, "ok"))

InitUpdate ==
    \E v \in DMLValues, filter \in Filters, dialect \in DMLDialects :
        Start(Input(v, filter, dialect, "ok"))

\* NewORM accepts the postgres driver only.
InitOrm ==
    \E v \in DMLValues, filter \in Filters, pool \in PoolOutcomes :
        Start(Input(v, filter, POSTGRES, pool))

\* ------------------------------------------------------------ DML calls
\* What a call of a DML generator leaves behind: the caller's model, the
\* caller's filter and the registry.  The generators read v through reflection,
\* copy filter.Where into a local, append to their own values and never call
\* String.
AfterDML_InPlace(op, v, filter, fks) ==
    LET got == GetTableSchema(v, POSTGRES)
        upd == TableUpdateSchema(got.schema, v, POSTGRES)
        ren == RenumberWhere(filter.Args, 1, filter.Where, Len(upd.values), upd.values)
    IN [v |-> v,
        filter |-> IF op = "UpdateSchema" /\ got.err = Nil /\ Validate(filter) = Nil
                      /\ ~upd.panic
                   THEN [filter EXCEPT !.Where = ren.whereClase] ELSE filter,
        fks |-> fks]

AfterDML(op, v, filter, fks) == [v |-> v, filter |-> filter, fks |-> fks]

\* A call of schema.InsertSchema
DoInsertSchema ==
    /\ call' = "InsertSchema"
    /\ ret' = InsertSchema(input.v, input.dialect)
    /\ executed' = <<>>
    /\ \E after \in {AfterDML("InsertSchema", input.v, input.filter, ForeignKeys)} :
         /\ input' = [input EXCEPT !.v = after.v, !.filter = after.filter]
         /\ ForeignKeys' = after.fks
    /\ UNCHANGED <<ts, firstRender, mig, Pool>>

\* A call of schema.DeleteSchema
DoDeleteSchema ==
    /\ call' = "DeleteSchema"
    /\ ret' = DeleteSchema(input.v, input.dialect)
    /\ executed' = <<>>
    /\ \E after \in {AfterDML("DeleteSchema", input.v, input.filter, ForeignKeys)} :
         /\ input' = [input EXCEPT !.v = after.v, !.filter = after.filter]
         /\ ForeignKeys' = after.fks
    /\ UNCHANGED <<ts, firstRender, mig, Pool>>

\* A call of schema.UpdateSchema
DoUpdateSchema ==
    /\ call' = "UpdateSchema"
    /\ ret' = UpdateSchema(input.v, input.filter, input.dialect)
    /\ executed' = <<>>
    /\ \E after \in {AfterDML("UpdateSchema", input.v, input.filter, ForeignKeys)} :
         /\ input' = [input EXCEPT !.v = after.v, !.filter = after.filter]
         /\ ForeignKeys' = after.fks
    /\ UNCHANGED <<ts, firstRender, mig, Pool>>

\* GetTableSchema followed by TableSchema.UpdateSchema on its result
DoTableUpdateSchema ==
    /\ GetTableSchema(input.v, input.dialect).err = Nil
    /\ call' = "TableSchema.UpdateSchema"
    /\ ret' = LET upd == TableUpdateSchema(GetTableSchema(input.v, input.dialect).schema,
                                           input.v, input.dialect)
              IN Result(upd.query, upd.values, Nil, upd.panic)
    /\ executed' = <<>>
    /\ UNCHANGED <<input, ts, ForeignKeys, firstRender, mig, Pool>>

\* ------------------------------------------------------------ ORM calls
\* A call of orm.Find
DoOrmFind ==
    /\ call' = "orm.Find"
    /\ ret' = Result(<<>>, <<>>, OrmFind(input.v, input.filter, input.pool).err, FALSE)
    /\ executed' = OrmFind(input.v, input.filter, input.pool).executed
    /\ UNCHANGED <<input, ts, ForeignKeys, firstRender, mig, Pool>>

\* A call of orm.Update
DoOrmUpdate ==
    /\ call' = "orm.Update"
    /\ ret' = Result(<<>>, <<>>, OrmUpdate(input.v, input.filter, input.pool).err, FALSE)
    /\ executed' = OrmUpdate(input.v, input.filter, input.pool).executed
    /\ UNCHANGED <<input, ts, ForeignKeys, firstRender, mig, Pool>>

\* A call of orm.Delete.  Query.Exec acquires no connection of its own: the pool
\* cannot refuse one.
DoOrmDelete ==
    /\ input.pool # "acquire failed"
    /\ call' = "orm.Delete"
    /\ ret' = Result(<<>>, <<>>, OrmDelete(input.v, input.filter, input.pool).err, FALSE)
    /\ executed' = OrmDelete(input.v, input.filter, input.pool).executed
    /\ UNCHANGED <<input, ts, ForeignKeys, firstRender, mig, Pool>>

\* ------------------------------------------------------------ DDL calls
\* The values the DDL generator is called with: structs of one type, which the
\* generator reads the table name of and nothing else, and IntValue.
DDLValues ==
    {StructValue(FALSE, T_User, fs, NonZeroVals(fs)) : fs \in FieldLists(DDLDecls)}
    \cup {IntValue}

InitDDL ==
    \E v \in DDLValues, dialect \in Dialects : Start(Input(v, NilFilter, dialect, "ok"))

\* The DDL generator on structs whose fields carry type tags.
InitType ==
    \E fs \in FieldLists(TypeDecls), dialect \in Dialects :
        Start(Input(StructValue(FALSE, T_User, fs, NonZeroVals(fs)), NilFilter, dialect, "ok"))

\* A call of GetTableSchema: ts is the new instance.
DoGetTableSchema ==
    /\ call' = "GetTableSchema"
    /\ ts' = GetTableSchema(input.v, input.dialect).schema
    /\ ret' = Result(<<>>, <<>>, GetTableSchema(input.v, input.dialect).err, FALSE)
    /\ firstRender' = NoRender
    /\ executed' = <<>>
    /\ UNCHANGED <<input, ForeignKeys, mig, Pool>>

\* A call of ts.String, with any dialect.  A schema not yet migrated is
\* rendered, the maps ranged over in any order; a migrated one returns its buffer.
DoString ==
    /\ ~ts.isNil
    /\ call' = "String"
    /\ executed' = <<>>
    /\ UNCHANGED <<input, mig, Pool>>
    /\ \/ /\ ts.migrated
          /\ \E dialect \in Dialects :
                \E r \in {String(ts, ForeignKeys, dialect, <<>>, <<>>)} :
                   /\ ret' = Result(<<r.text>>, <<>>, Nil, r.panic)
                   /\ firstRender' =
                         IF firstRender.done THEN firstRender
                         ELSE [done |-> TRUE, Fields |-> ts.Fields, buf |-> r.t.buf,
                               text |-> r.text]
          /\ UNCHANGED <<ts, ForeignKeys>>
       \/ /\ ~ts.migrated
          /\ \E dialect \in Dialects, orders \in TagOrders(ts) :
               \E groupOrder \in Perms(GroupKeys(ts)) :
                  \E r \in {String(ts, ForeignKeys, dialect, orders, groupOrder)} :
                     /\ IsOrderOf(groupOrder, r.t.CompositeIndexes)
                     /\ ts' = r.t
                     /\ ForeignKeys' = r.fks
                     /\ ret' = Result(<<r.text>>, <<>>, Nil, r.panic)
                     /\ firstRender' =
                           IF firstRender.done THEN firstRender
                           ELSE [done |-> TRUE, Fields |-> ts.Fields, buf |-> r.t.buf,
                                 text |-> r.text]

\* A call of ts.Flush; before the first String there is no buffer to reset.
DoFlush ==
    /\ ~ts.isNil
    /\ call' = "Flush"
    /\ ts' = IF ts.bufIsNil THEN ts ELSE Flush(ts)
    /\ ret' = Result(<<>>, <<>>, Nil, ts.bufIsNil)
    /\ executed' = <<>>
    /\ UNCHANGED <<input, ForeignKeys, firstRender, mig, Pool>>

\* Between two String calls the caller changes the exported Fields list of ts:
\* it drops the last field.
DoMutateFields ==
    /\ ~ts.isNil
    /\ ts.migrated
    /\ ts.Fields # <<>>
    /\ call' = "mutate Fields"
    /\ ts' = [ts EXCEPT !.Fields = SubSeq(@, 1, Len(@) - 1)]
    /\ ret' = Result(<<>>, <<>>, Nil, FALSE)
    /\ executed' = <<>>
    /\ UNCHANGED <<input, ForeignKeys, firstRender, mig, Pool>>

\* A call of schema.Schema: GetTableSchema and String on an instance that the
\* caller never sees; ts stays the instance in the caller's hands.
DoSchema ==
    \E got \in {GetTableSchema(input.v, input.dialect)} :
       /\ call' = "Schema"
       /\ executed' = <<>>
       /\ UNCHANGED <<input, ts, firstRender, mig, Pool>>
       /\ \/ /\ got.err # Nil
             /\ ret' = Result(<<>>, <<>>, got.err, FALSE)
             /\ UNCHANGED ForeignKeys
          \/ /\ got.err = Nil
             /\ \E orders \in TagOrders(got.schema) :
                  \E groupOrder \in Perms(GroupKeys(got.schema)) :
                     \E r \in {String(got.schema, ForeignKeys, input.dialect, orders,
                                      groupOrder)} :
                        /\ IsOrderOf(groupOrder, r.t.CompositeIndexes)
                        /\ ForeignKeys' = r.fks
                        /\ ret' = Result(<<r.text>>, <<>>, Nil, r.panic)

\* ------------------------------------------------------------ AutoMigrate
\* The models AutoMigrate is called with: User with a foreign key to
\* UserProfile, User with the same field pointing to Contact, UserProfile,
\* Category with a foreign key to UserProfile, and a value that is no struct.
M_User == StructValue(TRUE, T_User, <<D_ID, D_Profile>>, <<1, 2>>)
M_UserContact == StructValue(TRUE, T_User, <<D_ID, D_ProfileContact>>, <<1, 2>>)
M_UserProfile == StructValue(TRUE, T_UserProfile, <<D_Code, D_UserID>>, <<1, 2>>)
M_Category == StructValue(FALSE, T_Category, <<D_Name, D_Profile>>, <<1, 2>>)
MigrateModels == {M_User, M_UserContact, M_UserProfile, M_Category, IntValue}

Batches == UNION {[1..n -> MigrateModels] : n \in 0..MaxModels}

\* What pool.Exec returns: nil or an error, its text held word by word.
ExecOk == [isNil |-> TRUE, text |-> <<>>]
ExecError(text) == [isNil |-> FALSE, text |-> text]
ExecResults ==
    {ExecOk,
     ExecError(<<"ERROR:", "constraint", "already", "exists">>),
     ExecError(<<"ERROR:", "relation", "does", "not", "exist">>)}

\* err.Error()
ErrorText(err) == IF err.isNil THEN Nil ELSE Str(Join(err.text, " "))

AlreadyExists_Exact(err) == err.text = <<"already", "exists">>

\* strings.Contains(err.Error(), "already exists")
AlreadyExists(err) == Contains(err.text, <<"already", "exists">>)

\* ForeignKey.String
ForeignKeyString(fk) ==
    Str(<<"ALTER TABLE ", fk.TableName, " ADD CONSTRAINT ", fk.ConstraintName,
          " FOREIGN KEY (", SnakeCase(fk.FK), ") REFERENCES ", fk.ParentTable,
          " (", SnakeCase(fk.ParentPkColumn), ")", fk.OnDelete, fk.OnUpdate>>)

\* An entry of executed: a statement handed to pool.Exec and what came back.
CreateExec(table, sql, err) ==
    [kind |-> "create", table |-> table, parent |-> "", constraint |-> "", sql |-> sql,
     err |-> err]
AlterExec(fk, err) ==
    [kind |-> "alter", table |-> fk.TableName, parent |-> fk.ParentTable,
     constraint |-> fk.ConstraintName, sql |-> ForeignKeyString(fk), err |-> err]

InitMigrate ==
    \E models \in Batches :
        Start([v |-> IntValue, filter |-> NilFilter, dialect |-> POSTGRES, pool |-> "ok",
               models |-> models])

\* AutoMigrate is called.
MigrateStart ==
    /\ mig.pc = "idle"
    /\ call' = "AutoMigrate"
    /\ ret' = Result(<<>>, <<>>, Nil, FALSE)
    /\ executed' = <<>>
    /\ mig' = [Idle EXCEPT !.pc = "load", !.i = 1]
    /\ UNCHANGED <<input, ts, ForeignKeys, firstRender, Pool>>

\* One round of the first loop: GetTableSchema on the next model, the schema
\* stored under its table name, its String called.  After the last model the
\* second loop starts.
MigrateLoad ==
    /\ mig.pc = "load"
    /\ UNCHANGED <<input, call, executed, ts, firstRender, Pool>>
    /\ \/ /\ mig.i > Len(input.models)
          /\ mig' = [mig EXCEPT !.pc = "tables", !.todo = DOMAIN mig.schemasObjects]
          /\ UNCHANGED <<ret, ForeignKeys>>
       \/ /\ mig.i <= Len(input.models)
          /\ \E got \in {GetTableSchema(input.models[mig.i], input.dialect)} :
               \/ /\ got.err # Nil
                  /\ ret' = Result(<<>>, <<>>, got.err, FALSE)
                  /\ mig' = Idle
                  /\ UNCHANGED ForeignKeys
               \/ /\ got.err = Nil
                  /\ \E orders \in TagOrders(got.schema) :
                       \E groupOrder \in Perms(GroupKeys(got.schema)) :
                          \E r \in {String(got.schema, ForeignKeys, input.dialect,
                                           orders, groupOrder)} :
                             /\ IsOrderOf(groupOrder, r.t.CompositeIndexes)
                             /\ ForeignKeys' = r.fks
                             /\ mig' =
                                  [mig EXCEPT
                                     !.i = @ + 1,
                                     !.schemasObjects =
                                        [name \in DOMAIN @ \cup {r.t.TableName} |->
                                            IF name = r.t.TableName THEN r.t ELSE @[name]]]
                             /\ UNCHANGED ret

MigrateCreate_IgnoreError ==
    /\ mig.pc = "tables"
    /\ mig.todo # {}
    /\ \E tableName \in mig.todo, err \in ExecResults :
         LET tableSchema == mig.schemasObjects[tableName]
             sql == String(tableSchema, ForeignKeys, input.dialect, <<>>, <<>>).text
         IN /\ executed' = Append(executed, CreateExec(tableName, sql, err))
            /\ mig' = IF tableName \in DOMAIN ForeignKeys
                      THEN [mig EXCEPT !.pc = "fks", !.todo = @ \ {tableName},
                                       !.table = tableName, !.fk = 1]
                      ELSE [mig EXCEPT !.todo = @ \ {tableName}]
    /\ UNCHANGED <<input, call, ret, ts, ForeignKeys, firstRender, Pool>>

\* One round of the second loop: the create statement of a table not yet
\* visited is executed; when it succeeds and the table has foreign keys, the
\* loop over them starts.
MigrateCreate ==
    /\ mig.pc = "tables"
    /\ mig.todo # {}
    /\ \E tableName \in mig.todo, err \in ExecResults :
         LET tableSchema == mig.schemasObjects[tableName]
             sql == String(tableSchema, ForeignKeys, input.dialect, <<>>, <<>>).text
         IN /\ executed' = Append(executed, CreateExec(tableName, sql, err))
            /\ mig' = IF err.isNil /\ tableName \in DOMAIN ForeignKeys
                      THEN [mig EXCEPT !.pc = "fks", !.todo = @ \ {tableName},
                                       !.table = tableName, !.fk = 1]
                      ELSE [mig EXCEPT !.todo = @ \ {tableName}]
    /\ UNCHANGED <<input, call, ret, ts, ForeignKeys, firstRender, Pool>>

\* One round of the loop over ForeignKeys[tableName]: the statement of the next
\* foreign key is executed; an error that is not "already exists" is returned.
MigrateAlter ==
    /\ mig.pc = "fks"
    /\ \E err \in ExecResults :
         LET fk == ForeignKeys[mig.table][mig.fk]
         IN /\ executed' = Append(executed, AlterExec(fk, err))
            /\ IF ~err.isNil /\ ~AlreadyExists(err)
               THEN /\ ret' = Result(<<>>, <<>>, ErrorText(err), FALSE)
                    /\ mig' = Idle
               ELSE /\ ret' = ret
                    /\ mig' = IF mig.fk < Len(ForeignKeys[mig.table])
                              THEN [mig EXCEPT !.fk = @ + 1]
                              ELSE [mig EXCEPT !.pc = "tables", !.table = "", !.fk = 0]
    /\ UNCHANGED <<input, call, ts, ForeignKeys, firstRender, Pool>>

\* The second loop has visited every table: AutoMigrate returns nil.
MigrateReturn ==
    /\ mig.pc = "tables"
    /\ mig.todo = {}
    /\ ret' = Result(<<>>, <<>>, Nil, FALSE)
    /\ mig' = Idle
    /\ UNCHANGED <<input, call, executed, ts, ForeignKeys, firstRender, Pool>>

\* Between two AutoMigrate calls: schema.Schema on one of the models.
MigrateRender ==
    /\ mig.pc = "idle"
    /\ call' = "Schema"
    /\ executed' = <<>>
    /\ UNCHANGED <<input, ts, firstRender, mig, Pool>>
    /\ \E i \in 1..Len(input.models) :
         \E got \in {GetTableSchema(input.models[i], input.dialect)} :
            \/ /\ got.err # Nil
               /\ ret' = Result(<<>>, <<>>, got.err, FALSE)
               /\ UNCHANGED ForeignKeys
            \/ /\ got.err = Nil
               /\ \E orders \in TagOrders(got.schema) :
                    \E groupOrder \in Perms(GroupKeys(got.schema)) :
                       \E r \in {String(got.schema, ForeignKeys, input.dialect, orders,
                                        groupOrder)} :
                          /\ IsOrderOf(groupOrder, r.t.CompositeIndexes)
                          /\ ForeignKeys' = r.fks
                          /\ ret' = Result(<<r.text>>, <<>>, Nil, r.panic)

NextMigrate ==
    \/ MigrateStart \/ MigrateLoad \/ MigrateCreate \/ MigrateAlter \/ MigrateReturn
    \/ MigrateRender

\* ------------------------------------------------------------ Query calls
\* The filters of a Query: those of the ORM calls, each also with the raw
\* statement that overrides Query.Query.
RawQuery == "SELECT name FROM examples WHERE id = $1"
QueryFilters ==
    Filters \cup {[f EXCEPT !.Query = RawQuery] : f \in Filters \ {NilFilter}}

\* The statements and values a Query is built with.
GeneratedQueries ==
    {<<"SELECT ", "examples.id", " FROM ", "examples", " ">>, <<"DELETE FROM ", "examples">>}
GeneratedArgs == {<<>>, <<1>>}

InitQuery ==
    \E query \in GeneratedQueries, args \in GeneratedArgs, filter \in QueryFilters,
       pool \in PoolOutcomes :
        Start([v |-> IntValue, filter |-> filter, dialect |-> POSTGRES, pool |-> pool,
               query |-> query, args |-> args])

\* A call of Query.AddQueryFilters
DoAddQueryFilters ==
    /\ call' = "AddQueryFilters"
    /\ \E q \in {AddQueryFilters(NewQuery(input.query, input.args, input.filter))} :
         ret' = Result(q.Query, q.Args, Nil, FALSE)
    /\ executed' = <<>>
    /\ UNCHANGED <<input, ts, ForeignKeys, firstRender, mig, Pool>>

\* A call of Query.ScanOne
DoScanOne ==
    /\ call' = "ScanOne"
    /\ \E out \in {ScanOne(NewQuery(input.query, input.args, input.filter), input.pool)} :
         /\ ret' = Result(<<>>, <<>>, out.err, FALSE)
         /\ executed' = out.executed
    /\ UNCHANGED <<input, ts, ForeignKeys, firstRender, mig, Pool>>

\* A call of Query.Exec
DoExec ==
    /\ call' = "Exec"
    /\ \E out \in {Exec(NewQuery(input.query, input.args, input.filter), input.pool)} :
         /\ ret' = Result(<<>>, <<>>, out.err, FALSE)
         /\ executed' = out.executed
    /\ UNCHANGED <<input, ts, ForeignKeys, firstRender, mig, Pool>>

NextQuery == DoAddQueryFilters \/ DoScanOne \/ DoExec

\* ------------------------------------------------------------ DML and DDL calls mixed
InitDML ==
    \E v \in MigrateModels, filter \in Filters, dialect \in DMLDialects :
        Start(Input(v, filter, dialect, "ok"))

\* A call of schema.Columns
DoColumns ==
    /\ call' = "Columns"
    /\ \E got \in {Columns(input.v, input.dialect)} :
         ret' = Result(got.qualified, <<>>, got.err, FALSE)
    /\ executed' = <<>>
    /\ \E after \in {AfterDML("Columns", input.v, input.filter, ForeignKeys)} :
         /\ input' = [input EXCEPT !.v = after.v, !.filter = after.filter]
         /\ ForeignKeys' = after.fks
    /\ UNCHANGED <<ts, firstRender, mig, Pool>>

NextDML == DoInsertSchema \/ DoUpdateSchema \/ DoDeleteSchema \/ DoColumns \/ DoSchema

\* ------------------------------------------------------------ Query calls made at once
\* The Query methods that acquire a connection and run their statement.
PoolOps == {"ScanAll", "ScanOne", "Create"}

\* A pool of conns connections, all free, and a number of goroutines that have
\* made no call yet.
InitPool ==
    \E conns \in 1..MaxConns, n \in 1..MaxCallers :
        /\ input = [v |-> IntValue, filter |-> NilFilter, dialect |-> POSTGRES,
                    pool |-> "ok", conns |-> conns]
        /\ call = "none"
        /\ ret = Result(<<>>, <<>>, Nil, FALSE)
        /\ executed = <<>>
        /\ ts = NoSchema
        /\ ForeignKeys = EmptyTags
        /\ firstRender = NoRender
        /\ mig = Idle
        /\ Pool = [free |-> conns, callers |-> [c \in 1..n |-> [op |-> "none", pc |-> "idle"]]]

\* A goroutine calls ScanAll, ScanOne or Create on a valid query: Validate
\* leaves no error and the call goes on to q.Pool.Acquire.
CallStart ==
    \E c \in DOMAIN Pool.callers, op \in PoolOps :
        /\ Pool.callers[c].pc = "idle"
        /\ Pool' = [Pool EXCEPT !.callers[c] = [op |-> op, pc |-> "acquire"]]
        /\ UNCHANGED <<input, call, ret, executed, ts, ForeignKeys, firstRender, mig>>

\* q.Pool.Acquire(q.Context) hands out a free connection; with none free it
\* waits (the context is context.Background()).  conn.Release is deferred.
Acquire ==
    \E c \in DOMAIN Pool.callers :
        /\ Pool.callers[c].pc = "acquire"
        /\ Pool.free > 0
        /\ Pool' = [Pool EXCEPT !.free = @ - 1, !.callers[c].pc = "holding"]
        /\ UNCHANGED <<input, call, ret, executed, ts, ForeignKeys, firstRender, mig>>

\* pgxscan.Select / pgxscan.Get run the statement on q.Pool, not on conn: the
\* pool hands out a further free connection for it, or waits for one.
PoolQuery ==
    \E c \in DOMAIN Pool.callers :
        /\ Pool.callers[c].pc = "holding"
        /\ Pool.free > 0
        /\ Pool' = [Pool EXCEPT !.free = @ - 1, !.callers[c].pc = "querying"]
        /\ UNCHANGED <<input, call, ret, executed, ts, ForeignKeys, firstRender, mig>>

\* The statement is done: its connection goes back to the pool, the method
\* returns and the deferred conn.Release gives back the acquired connection.
CallReturn ==
    \E c \in DOMAIN Pool.callers :
        /\ Pool.callers[c].pc = "querying"
        /\ Pool' = [Pool EXCEPT !.free = @ + 2, !.callers[c].pc = "idle"]
        /\ call' = Pool.callers[c].op
        /\ ret' = Result(<<>>, <<>>, Nil, FALSE)
        /\ UNCHANGED <<input, executed, ts, ForeignKeys, firstRender, mig>>

NextPool == CallStart \/ Acquire \/ PoolQuery \/ CallReturn

NextInsert == DoInsertSchema \/ DoDeleteSchema
NextUpdate == DoUpdateSchema \/ DoTableUpdateSchema
NextOrm == DoOrmFind \/ DoOrmUpdate \/ DoOrmDelete
NextDDL == DoGetTableSchema \/ DoString \/ DoFlush \/ DoMutateFields \/ DoSchema

SpecInsert == InitInsert /\ [][NextInsert]_vars
SpecUpdate == InitUpdate /\ [][NextUpdate]_vars
SpecOrm == InitOrm /\ [][NextOrm]_vars
SpecDDL == InitDDL /\ [][NextDDL]_vars
SpecType == InitType /\ [][NextDDL]_vars
SpecMigrate == InitMigrate /\ [][NextMigrate]_vars
SpecQuery == InitQuery /\ [][NextQuery]_vars
SpecDML == InitDML /\ [][NextDML]_vars
SpecPool == InitPool /\ [][NextPool]_vars

\* Every call on every argument.
Init == InitInsert \/ InitUpdate \/ InitOrm \/ InitDDL \/ InitType \/ InitMigrate \/ InitQuery \/ InitDML \/ InitPool
Next == NextInsert \/ NextUpdate \/ NextOrm \/ NextDDL \/ NextMigrate \/ NextQuery \/ NextDML \/ NextPool
Spec == Init /\ [][Next]_vars

\* ------------------------------------------------------------ reading results
IsDigit(c) == \E d \in 1..10 : DecimalDigits[d] = c
DigitValue(c) == (CHOOSE d \in 1..10 : DecimalDigits[d] = c) - 1

\* The number written in decimal at position i of chars, and the position after it.
RECURSIVE ReadNumber(_, _, _)
ReadNumber(chars, i, acc) ==
    IF i <= Len(chars) /\ IsDigit(chars[i])
    THEN ReadNumber(chars, i + 1, 10 * acc + DigitValue(chars[i]))
    ELSE [value |-> acc, next |-> i]

\* The placeholder numbers of a clause, in the order they stand in it.
RECURSIVE PlaceholdersFrom(_, _)
PlaceholdersFrom(chars, i) ==
    IF i > Len(chars) THEN <<>>
    ELSE IF chars[i] = "$" /\ i < Len(chars) /\ IsDigit(chars[i + 1])
    THEN LET num == ReadNumber(chars, i + 1, 0)
         IN <<num.value>> \o PlaceholdersFrom(chars, num.next)
    ELSE PlaceholdersFrom(chars, i + 1)

PlaceholdersOf(chars) == PlaceholdersFrom(chars, 1)

IndexOf(text, fragment) == CHOOSE i \in 1..Len(text) : text[i] = fragment

\* The Where clause of an UPDATE statement: what follows " WHERE ", without the
\* RETURNING clause.
WhereOf(query) ==
    LET from == IndexOf(query, " WHERE ") + 1
        to == IF query[Len(query)] = " RETURNING *" THEN Len(query) - 1 ELSE Len(query)
    IN SubSeq(query, from, to)

\* The VALUES list of an INSERT statement without its separators.
ValuesOf(query) ==
    LET from == IndexOf(query, ") VALUES (") + 1
        to == IndexOf(query, ")") - 1
        NoSeparator(x) == x # ", "
    IN SelectSeq(SubSeq(query, from, to), NoSeparator)

\* What the struct declares, read from the declarations themselves.
HasKey(d, key) == \E i \in 1..Len(d.Tag) : d.Tag[i][1] = key

IsPlain(d) == d.Exported /\ ~HasKey(d, "primaryKey") /\ ~HasKey(d, "foreignKey")
IsColumn(d) == d.Exported /\ ~HasKey(d, "foreignKey")

\* The positions of the exported fields that are neither primary key nor
\* foreign key.
RECURSIVE PlainFrom(_, _)
PlainFrom(v, i) ==
    IF i > Len(v.Fields) THEN <<>>
    ELSE (IF IsPlain(v.Fields[i]) THEN <<i>> ELSE <<>>) \o PlainFrom(v, i + 1)

PlainPositions(v) == PlainFrom(v, 1)

\* The positions of the exported fields that are no foreign key.
RECURSIVE ColumnsFrom(_, _)
ColumnsFrom(v, i) ==
    IF i > Len(v.Fields) THEN <<>>
    ELSE (IF IsColumn(v.Fields[i]) THEN <<i>> ELSE <<>>) \o ColumnsFrom(v, i + 1)

ColumnPositions(v) == ColumnsFrom(v, 1)

PlainValues(v) == [i \in 1..Len(PlainPositions(v)) |-> v.Vals[PlainPositions(v)[i]]]

Returned(op) == call = op /\ ret.err = Nil /\ ~ret.panic

\* The argument count n and the generated-value count k of the update in hand.
ArgCount == Len(input.filter.Args)
SetCount == Len(PlainPositions(input.v))

\* The filter's clause names each of $1..$n.
UsesEveryArg ==
    {PlaceholdersOf(input.filter.Where)[i] :
        i \in 1..Len(PlaceholdersOf(input.filter.Where))} = 1..ArgCount

\* ------------------------------------------------------------ C1
\* C1: in the statement schema.UpdateSchema returns, no filter placeholder is
\* rewritten to a number in 1..k (the SET values' numbers), and two different
\* filter placeholders are never rewritten to the same number.
C1_NoPlaceholderCollision ==
    (Returned("UpdateSchema") /\ UsesEveryArg) =>
        LET before == PlaceholdersOf(input.filter.Where)
            after == PlaceholdersOf(WhereOf(ret.query))
        IN /\ Len(after) = Len(before)
           /\ \A a \in 1..Len(after) : after[a] \notin 1..SetCount
           /\ \A a, b \in 1..Len(after) : before[a] # before[b] => after[a] # after[b]

\* ------------------------------------------------------------ C2
\* C2: schema.UpdateSchema rewrites filter placeholder $i to $(k+i) for every i
\* in 1..n, and the value at position k+i of the returned list is the i-th
\* filter argument.
C2_RenumberedByK ==
    (Returned("UpdateSchema") /\ UsesEveryArg) =>
        LET before == PlaceholdersOf(input.filter.Where)
            after == PlaceholdersOf(WhereOf(ret.query))
        IN /\ Len(after) = Len(before)
           /\ \A a \in 1..Len(after) : after[a] = SetCount + before[a]
           /\ \A i \in 1..ArgCount :
                /\ SetCount + i <= Len(ret.values)
                /\ ret.values[SetCount + i] = input.filter.Args[i]

\* ------------------------------------------------------------ C3
\* C3: the value list schema.UpdateSchema returns is the k SET values in field
\* declaration order followed by the n filter arguments in their order, so its
\* length is k + n, also when an argument's placeholder is not in the clause.
C3_ValuesAreSetThenArgs ==
    Returned("UpdateSchema") =>
        /\ ret.values = PlainValues(input.v) \o input.filter.Args
        /\ Len(ret.values) = SetCount + ArgCount

\* An update with two arguments whose clause names only one of them, on a
\* struct with a SET value.
C3_Witness ==
    /\ Returned("UpdateSchema")
    /\ ArgCount = 2
    /\ PlaceholdersOf(input.filter.Where) = <<1>>
    /\ SetCount >= 1
    /\ Len(ret.values) = SetCount + 2

\* ------------------------------------------------------------ C4
PlaceholderRun(m) == [j \in 1..m |-> Placeholder(j)]

\* The primary key holds the zero value of its type.
PrimaryKeyIsZero(v) ==
    \E i \in 1..Len(v.Fields) :
        IsColumn(v.Fields[i]) /\ HasKey(v.Fields[i], "primaryKey") /\ v.Vals[i] = 0

\* C4: for every model passed to InsertSchema, the placeholders of the VALUES
\* list are exactly $1..$m, m is the number of bound values returned, and m is
\* the number of non-foreign-key fields, minus one if the primary key is zero.
C4_InsertPlaceholdersMatchValues ==
    Returned("InsertSchema") =>
        /\ ValuesOf(ret.query) = PlaceholderRun(Len(ret.values))
        /\ Len(ret.values) =
              Len(ColumnPositions(input.v)) - (IF PrimaryKeyIsZero(input.v) THEN 1 ELSE 0)

\* ------------------------------------------------------------ C5
RECURSIVE Assignments(_, _)
Assignments(v, i) ==
    IF i > Len(PlainPositions(v)) THEN <<>>
    ELSE <<Str(<<SnakeCase(v.Fields[PlainPositions(v)[i]].Name), " = ", Placeholder(i)>>)>>
         \o Assignments(v, i + 1)

\* C5: TableSchema.UpdateSchema emits "UPDATE <table> SET " followed by one
\* assignment "<col> = $i" per field that is neither primary key nor foreign
\* key, in declaration order, numbered $1..$k, every two adjacent assignments
\* separated by ", ", and returns the k field values in the same order.
C5_UpdateSetList ==
    Returned("TableSchema.UpdateSchema") =>
        /\ Str(ret.query) =
              Str(<<"UPDATE ", GetTableName(Elem(input.v)), " SET ">>
                  \o Join(Assignments(input.v, 1), ", "))
        /\ ret.values = PlainValues(input.v)

\* ------------------------------------------------------------ C6
OrmCalls == {"orm.Find", "orm.Update", "orm.Delete"}

\* The error the claim names for a filter: nil, then empty Where, then no Args.
FilterError(f) ==
    IF f.isNil THEN "query filter cannot be nil"
    ELSE IF f.Where = <<>> THEN "query filter where clause cannot be empty"
    ELSE IF f.Args = <<>> THEN "query filter args cannot be empty"
    ELSE Nil

C7_Scenario ==
    /\ input.dialect = "postgres"
    /\ IsStruct(input.v)
    /\ Len(input.v.Fields) = 2
    /\ input.v.Fields[1].Exported /\ input.v.Fields[2].Exported
    /\ input.v.Fields[1].Kind = "int"
    /\ input.v.Fields[1].Tag = << <<"primaryKey">>, <<"autoIncrement">> >>
    /\ input.v.Fields[2].Kind = "string"
    /\ input.v.Fields[2].Tag = << <<"not null">> >>

C7_Column(i) == SnakeCase(input.v.Fields[i].Name)

\* The statement the scenario names.
C7_Text ==
    Str(<<"CREATE TABLE IF NOT EXISTS ", GetTableName(input.v), " (\n",
          "  ", C7_Column(1), " SERIAL,\n",
          "  ", C7_Column(2), " VARCHAR(255) not null,\n",
          "  PRIMARY KEY (", C7_Column(1), ")\n);">>)

\* C7: for the scenario's struct and postgres, the first String call on the
\* instance returns "CREATE TABLE IF NOT EXISTS <name> (\n  id SERIAL,\n  name
\* VARCHAR(255) not null,\n  PRIMARY KEY (id)\n);" character for character.
C7_CreateStatement ==
    (C7_Scenario /\ firstRender.done) => firstRender.text = C7_Text

\* ------------------------------------------------------------ C8
\* How often fragment stands in the buffer.
RECURSIVE CountOf(_, _)
CountOf(buf, fragment) ==
    IF buf = <<>> THEN 0
    ELSE (IF Head(buf) = fragment THEN 1 ELSE 0) + CountOf(Tail(buf), fragment)

\* The rendered fields tagged unique, and the uniqueIndex groups named.
UniqueTagged(fields) == {i \in 1..Len(fields) : "unique" \in DOMAIN fields[i].Tags}
GroupTagged(fields) == {i \in 1..Len(fields) : "uniqueIndex" \in DOMAIN fields[i].Tags}
GroupNames(fields) == {fields[i].Tags["uniqueIndex"] : i \in GroupTagged(fields)}

\* The column names of the fields of group g, in declaration order.
RECURSIVE GroupColumns(_, _, _)
GroupColumns(fields, g, i) ==
    IF i > Len(fields) THEN <<>>
    ELSE (IF i \in GroupTagged(fields) /\ fields[i].Tags["uniqueIndex"] = g
          THEN <<SnakeCase(fields[i].Name)>> ELSE <<>>)
         \o GroupColumns(fields, g, i + 1)

\* The text between the parentheses of the clauses that open with fragment.
ClauseBodies(buf, fragment) ==
    {buf[j + 1] : j \in {k \in 1..(Len(buf) - 1) : buf[k] = fragment}}

SingleUnique == ",\nUNIQUE ("
CompositeUnique == ",\nUNIQUE("

\* C8: the statement the first String call renders has one single-column UNIQUE
\* clause per field tagged unique, naming that field, and one composite UNIQUE
\* clause per distinct uniqueIndex group, listing every field of that group.
C8_UniqueClauses ==
    firstRender.done =>
        LET fields == firstRender.Fields
            buf == firstRender.buf
        IN /\ CountOf(buf, SingleUnique) = Cardinality(UniqueTagged(fields))
           /\ ClauseBodies(buf, SingleUnique) =
                 {SnakeCase(fields[i].Name) : i \in UniqueTagged(fields)}
           /\ CountOf(buf, CompositeUnique) = Cardinality(GroupNames(fields))
           /\ ClauseBodies(buf, CompositeUnique) =
                 {Str(Join(GroupColumns(fields, g, 1), ", ")) : g \in GroupNames(fields)}

\* A statement rendered for two fields of one uniqueIndex group.
C8_Witness ==
    /\ firstRender.done
    /\ call = "String"
    /\ Cardinality(GroupTagged(firstRender.Fields)) = 2
    /\ Cardinality(GroupNames(firstRender.Fields)) = 1
    /\ CountOf(firstRender.buf, CompositeUnique) = 1

\* ------------------------------------------------------------ C9
\* C9: once String has been called on an instance, every later String call on
\* it returns the text the first call returned, whatever was done to the
\* instance in between (its Fields changed, another dialect passed, Flush).
C9_StringIdempotent ==
    (call = "String" /\ firstRender.done) => Str(ret.query) = firstRender.text

\* ------------------------------------------------------------ C10
\* The struct has an exported field that is no foreign key, whose kind OrmType
\* maps to no SQL type, and that has no type tag.
C10_UnresolvedType ==
    /\ IsStruct(input.v)
    /\ \E i \in 1..Len(input.v.Fields) :
          /\ IsColumn(input.v.Fields[i])
          /\ OrmType(input.v.Fields[i].Kind) = ""
          /\ ~HasKey(input.v.Fields[i], "type")

\* C10: schema.Schema on a model with such a field returns an error and no
\* create statement.
C10_UnmappedTypeFails ==
    (call = "Schema" /\ C10_UnresolvedType) => (ret.err # Nil /\ ret.query = <<>>)

\* ------------------------------------------------------------ C11
\* The fragment written as the type of the column named name ("": no column).
ColumnType(buf, name) ==
    IF \E j \in 1..(Len(buf) - 3) : buf[j] = "  " /\ buf[j + 1] = name /\ buf[j + 2] = " "
    THEN buf[(CHOOSE j \in 1..(Len(buf) - 3) :
                 buf[j] = "  " /\ buf[j + 1] = name /\ buf[j + 2] = " ") + 3]
    ELSE ""

\* The rendered fields that carry a non-empty type tag.
TypeTagged(fields) ==
    {i \in 1..Len(fields) :
        "type" \in DOMAIN fields[i].Tags /\ fields[i].Tags["type"] # ""}

\* C11: in the statement the first String call renders, the type of every
\* column whose field carries a non-empty type tag is that tag's value in upper
\* case, whatever the field's other tags and the dialect.
C11_ExplicitTypeWins ==
    firstRender.done =>
        \A i \in TypeTagged(firstRender.Fields) :
            ColumnType(firstRender.buf, SnakeCase(firstRender.Fields[i].Name))
                = ToUpper(firstRender.Fields[i].Tags["type"])

\* The constraint names held by a registry.
ConstraintNames(fks) ==
    UNION {{fks[tbl][i].ConstraintName : i \in 1..Len(fks[tbl])} : tbl \in DOMAIN fks}

RegistryUnique ==
    \A t1 \in DOMAIN ForeignKeys, t2 \in DOMAIN ForeignKeys :
        \A i \in 1..Len(ForeignKeys[t1]), j \in 1..Len(ForeignKeys[t2]) :
            ForeignKeys[t1][i].ConstraintName = ForeignKeys[t2][j].ConstraintName
                => t1 = t2 /\ i = j

RegistryGrows ==
    /\ \A tbl \in DOMAIN ForeignKeys :
          /\ tbl \in DOMAIN ForeignKeys'
          /\ Len(ForeignKeys[tbl]) <= Len(ForeignKeys'[tbl])
          /\ SubSeq(ForeignKeys'[tbl], 1, Len(ForeignKeys[tbl])) = ForeignKeys[tbl]
    /\ ConstraintNames(ForeignKeys') = ConstraintNames(ForeignKeys)
          => ForeignKeys' = ForeignKeys

\* C12: after any sequence of renders and AutoMigrate calls ForeignKeys holds at
\* most one record per constraint name; a step that renders only foreign keys
\* whose constraint names are registered already (under whatever table key)
\* leaves the registry as it was; no step removes a record.
C12_RegistryOneRecordPerConstraint == []RegistryUnique /\ [][RegistryGrows]_vars

\* Both User models were rendered: the second found the constraint name of its
\* foreign key registered under another table key.
C12_Witness ==
    /\ input.models = <<M_User, M_UserContact>>
    /\ mig.pc = "tables"
    /\ DOMAIN ForeignKeys = {"user_profiles"}
    /\ Len(ForeignKeys["user_profiles"]) = 1
    /\ ForeignKeys["user_profiles"][1].ConstraintName = "examples_profile_fkey"

\* The entries of executed that are create statements executed without error.
Created(table, before) ==
    \E i \in 1..(before - 1) :
        /\ executed[i].kind = "create"
        /\ executed[i].table = table
        /\ executed[i].err.isNil

AlterEntries == {j \in 1..Len(executed) : executed[j].kind = "alter"}

\* C13: in a run of AutoMigrate, whatever order the tables are ranged over, an
\* ALTER TABLE statement for a table is executed only after the CREATE of that
\* same table was executed without error in this run, and only for a table
\* that has a foreign key registered; a table whose CREATE failed gets none of
\* its foreign key statements.
C13_AlterAfterOwnCreate ==
    call = "AutoMigrate" =>
        /\ \A j \in AlterEntries :
              /\ Created(executed[j].table, j)
              /\ executed[j].table \in DOMAIN ForeignKeys
              /\ \E n \in 1..Len(ForeignKeys[executed[j].table]) :
                    ForeignKeyString(ForeignKeys[executed[j].table][n]) = executed[j].sql
        /\ \A i \in 1..Len(executed) :
              executed[i].kind = "create" /\ ~executed[i].err.isNil
                  => \A j \in AlterEntries : executed[j].table # executed[i].table

\* A run has ended in which one table's CREATE failed and another table's
\* foreign key statement was executed.
C13_Witness ==
    /\ call = "AutoMigrate"
    /\ mig.pc = "idle"
    /\ AlterEntries # {}
    /\ \E i \in 1..Len(executed) : executed[i].kind = "create" /\ ~executed[i].err.isNil

\* C14: when the referencing and the referenced model are both in the batch, a
\* foreign key statement is executed only after the CREATE of the table it
\* REFERENCES was executed without error.
C14_AlterAfterReferencedCreate ==
    call = "AutoMigrate" =>
        \A j \in AlterEntries :
            executed[j].parent \in DOMAIN mig.schemasObjects
                => Created(executed[j].parent, j)

\* An AutoMigrate run has returned.
MigrateReturned == call = "AutoMigrate" /\ mig.pc = "idle"

NotAStruct ==
    \E i \in 1..Len(input.models) :
        GetTableSchema(input.models[i], input.dialect).err # Nil

\* The error text of an executed statement holds "already exists".
SaysAlreadyExists(entry) ==
    \E k \in 1..(Len(entry.err.text) - 1) :
        entry.err.text[k] = "already" /\ entry.err.text[k + 1] = "exists"

Fatal(entry) ==
    entry.kind = "alter" /\ ~entry.err.isNil /\ ~SaysAlreadyExists(entry)

BatchTables ==
    {GetTableSchema(input.models[i], input.dialect).schema.TableName :
        i \in 1..Len(input.models)}

\* C15: AutoMigrate returns an error exactly when a model is not a struct or a
\* foreign key statement fails with a text that does not hold "already
\* exists", and then nothing is executed after the failing statement; a failed
\* CREATE is not returned and every table of the batch still has its CREATE
\* attempted; an "already exists" failure of a foreign key statement is not
\* returned.
C15_MigrateErrors ==
    MigrateReturned =>
        /\ ret.err # Nil
              <=> \/ NotAStruct
                  \/ Len(executed) > 0 /\ Fatal(executed[Len(executed)])
        /\ NotAStruct => executed = <<>>
        /\ \A i \in 1..(Len(executed) - 1) : ~Fatal(executed[i])
        /\ Len(executed) > 0 /\ Fatal(executed[Len(executed)])
              => ret.err = ErrorText(executed[Len(executed)].err)
        /\ ret.err = Nil
              => BatchTables = {executed[i].table :
                                   i \in {j \in 1..Len(executed) : executed[j].kind = "create"}}

\* A run returned nil although one CREATE failed and a foreign key statement
\* failed with "already exists".
C15_Witness ==
    /\ MigrateReturned
    /\ ret.err = Nil
    /\ \E i \in 1..Len(executed) : executed[i].kind = "create" /\ ~executed[i].err.isNil
    /\ \E j \in AlterEntries : ~executed[j].err.isNil /\ SaysAlreadyExists(executed[j])

\* C16: Query.AddQueryFilters with a raw statement in the filter leaves exactly
\* that statement as the text, the filter's arguments appended to the values;
\* without one, and with Where and Args both non-empty, the text is the
\* generated statement followed by " WHERE " and the clause, the arguments
\* appended; with a nil filter, or an empty Where or Args and no raw statement,
\* text and values are as they were.
C16_AddQueryFilters ==
    call = "AddQueryFilters" =>
        LET f == input.filter
        IN IF ~f.isNil /\ f.Query # Nil
           THEN /\ Str(ret.query) = f.Query
                /\ ret.values = input.args \o f.Args
           ELSE IF ~f.isNil /\ f.Where # <<>> /\ f.Args # <<>>
           THEN /\ Str(ret.query) = Str(input.query \o <<" WHERE ">> \o f.Where)
                /\ ret.values = input.args \o f.Args
           ELSE /\ Str(ret.query) = Str(input.query)
                /\ ret.values = input.args

\* The position of the last field that carries the primaryKey tag, 0 without one.
LastPrimaryKey(v) ==
    IF \E i \in 1..Len(v.Fields) : IsColumn(v.Fields[i]) /\ HasKey(v.Fields[i], "primaryKey")
    THEN CHOOSE i \in 1..Len(v.Fields) :
            /\ IsColumn(v.Fields[i]) /\ HasKey(v.Fields[i], "primaryKey")
            /\ \A j \in (i + 1)..Len(v.Fields) :
                  ~(IsColumn(v.Fields[j]) /\ HasKey(v.Fields[j], "primaryKey"))
    ELSE 0

\* The values of the fields an insert binds when the last primaryKey field is
\* the one primary key: every field that is no foreign key, the primary key
\* left out when zero.
RECURSIVE InsertedFrom(_, _)
InsertedFrom(v, i) ==
    IF i > Len(v.Fields) THEN <<>>
    ELSE (IF IsColumn(v.Fields[i]) /\ ~(i = LastPrimaryKey(v) /\ v.Vals[i] = 0)
          THEN <<v.Vals[i]>> ELSE <<>>) \o InsertedFrom(v, i + 1)

\* C17: a model has one primary key, the last field carrying the primaryKey
\* tag; the insert generator skips that field alone when it is zero, so the
\* values it binds are those of every other field that is no foreign key.
C17_OnePrimaryKey ==
    Returned("InsertSchema") => ret.values = InsertedFrom(input.v, 1)

DMLOps == {"InsertSchema", "UpdateSchema", "DeleteSchema", "Columns"}

ColumnListOf(query) == SubSeq(query, 4, IndexOf(query, ") VALUES (") - 1)

\* The positions of the fields an insert includes: those that are no foreign
\* key, a primaryKey field left out when it is zero.
RECURSIVE IncludedFrom(_, _)
IncludedFrom(v, i) ==
    IF i > Len(v.Fields) THEN <<>>
    ELSE (IF IsColumn(v.Fields[i]) /\ ~(HasKey(v.Fields[i], "primaryKey") /\ v.Vals[i] = 0)
          THEN <<i>> ELSE <<>>) \o IncludedFrom(v, i + 1)

IncludedNames(v) ==
    [k \in 1..Len(IncludedFrom(v, 1)) |-> SnakeCase(v.Fields[IncludedFrom(v, 1)[k]].Name)]

\* C19: the column list TableSchema.InsertSchema writes is the snake-cased
\* names of the included fields in declaration order, joined by single ", "
\* with no separator in front, behind or doubled, and the i-th bound value is
\* the value of the field of the i-th column.
C19_InsertColumnList ==
    Returned("InsertSchema") =>
        /\ Str(ColumnListOf(ret.query)) = Str(Join(IncludedNames(input.v), ", "))
        /\ ret.values =
              [k \in 1..Len(IncludedFrom(input.v, 1)) |-> input.v.Vals[IncludedFrom(input.v, 1)[k]]]

\* The table name the model's schema resolves: the one the INSERT, UPDATE,
\* DELETE and CREATE TABLE statements and the qualified column names carry.
SchemaTable == GetTableSchema(input.v, POSTGRES).schema.TableName

\* The statement a query with the given text and the filter of the call hands
\* to the pool.
Filtered(text) == Statement(AddQueryFilters(NewQuery(text, <<>>, input.filter))).sql

\* C20: every ORM operation names the same table for a model, with or without
\* a TableName method: the SELECT of Find reads from the table that Delete's
\* DELETE names, which is the table of the model's schema and the prefix of
\* the qualified columns of that SELECT.
C20_SameTableName ==
    /\ call = "orm.Delete" /\ executed # <<>>
          => executed[1].sql = Filtered(<<"DELETE FROM ", SchemaTable, " ">>)
    /\ call = "orm.Find" /\ executed # <<>>
          => executed[1].sql =
                Filtered(<<"SELECT ">>
                         \o Trim(Join(Columns(GetType(input.v), POSTGRES).qualified, ", "))
                         \o <<" FROM ", SchemaTable, " ">>)

\* The goroutines that hold an acquired connection and wait for the pool to
\* hand out the connection of their statement.
Waiting == {c \in DOMAIN Pool.callers : Pool.callers[c].pc = "holding"}

\* C21: whatever the capacity of the pool and the number of goroutines calling
\* ScanAll, ScanOne and Create, the connections are never all held by calls
\* that each wait for the pool to hand out a further one.
C21_NoPoolDeadlock ==
    DOMAIN Pool.callers # {} =>
        ~(Pool.free = 0 /\ Cardinality(Waiting) = input.conns)
====
